---- MODULE Spec2Model ----
(***************************************************************************)
(* The j2 developer-tool dispatcher (dev/j2.py): five subcommands are      *)
(* registered on an argparse parser, the process arguments are parsed      *)
(* once, and the entry point of the selected handler module is called.     *)
(*                                                                         *)
(* An argument token is a sequence of one-character strings, so that       *)
(* "equal character for character" and "is a prefix of" are different      *)
(* relations of the model.  The model reads the argument grammar of        *)
(* Python 3 argparse (optional subparsers; a token that starts with '-'    *)
(* is an option string).  The alphabet holds no '--' separator, no         *)
(* '=' and no digit, so the branches of argparse for those are left out.   *)
(***************************************************************************)
EXTENDS Integers, Sequences, FiniteSets, TLC

\* Longest argument list the model draws for sys.argv[1:].
MaxArgs == 4

(***************************************************************************)
(* Tokens.                                                                 *)
(***************************************************************************)
T_size    == <<"s", "i", "z", "e">>
T_gen     == <<"g", "e", "n">>
T_diff    == <<"d", "i", "f", "f">>
T_test    == <<"t", "e", "s", "t">>
T_testall == <<"t", "e", "s", "t", "a", "l", "l">>
T_tes     == <<"t", "e", "s">>
T_sizes   == <<"s", "i", "z", "e", "s">>
T_bogus   == <<"b", "o", "g", "u", "s">>
T_h       == <<"-", "h">>
T_help    == <<"-", "-", "h", "e", "l", "p">>
T_flag    == <<"-", "-", "f", "l", "a", "g">>
T_j2      == <<"j", "2">>

\* The tokens the first argument is drawn from: the five names, a strict
\* prefix and an extension of a name, an unrelated word, the help flag and
\* an option string that only a handler may declare.
Tokens ==
  {T_size, T_gen, T_diff, T_test, T_testall, T_tes, T_sizes, T_bogus, T_h, T_flag}

\* The tokens the later arguments are drawn from.  A later token is read as a
\* word, as the help flag or as an option string; its spelling selects a
\* subcommand only when every token before it is an option string.
RestTokens == {T_size, T_bogus, T_h, T_flag}

RECURSIVE SeqsUpTo(_, _)
SeqsUpTo(S, n) ==
  IF n = 0 THEN {<<>>}
  ELSE LET shorter == SeqsUpTo(S, n - 1)
       IN  shorter \cup {Append(s, t) : s \in {x \in shorter : Len(x) = n - 1}, t \in S}

ArgLists ==
  {<<>>} \cup {<<t>> \o rest : t \in Tokens, rest \in SeqsUpTo(RestTokens, MaxArgs - 1)}

StartsWith(s, p) == Len(p) <= Len(s) /\ SubSeq(s, 1, Len(p)) = p

(***************************************************************************)
(* The handler modules.  Their sources are not part of this file; what     *)
(* the dispatcher reads of a module is whether it has add_arguments, what  *)
(* add_arguments declares on the subparser, and main.                      *)
(*   NONE: no add_arguments, so the subcommand has no options of its own.  *)
(*   DECL: add_arguments declares the optional "--flag VALUE" and the      *)
(*         required positional "target".                                   *)
(* Each of the five modules is either, independently of the others.        *)
(***************************************************************************)
Handlers == {"make_size_report", "replace_all", "diff", "test_integration", "test_all"}

Variants == {"NONE", "DECL"}

None == <<>>
Some(v) == <<v>>

HelpAction == [kind |-> "help", strings |-> {T_h, T_help}, dest |-> "help"]
FlagAction == [kind |-> "store", strings |-> {T_flag}, dest |-> "flag"]
TargetAction == [dest |-> "target", nargs |-> "one", required |-> TRUE]
\* add_subparsers(): a positional of nargs PARSER ('A...'), not required.
SubParsersAction == [dest |-> "SUPPRESS", nargs |-> "A...", required |-> FALSE]

\* hasattr(handler, "add_arguments")
has_add_arguments(variant) == variant # "NONE"

\* handler.add_arguments(parser)
add_arguments(variant, parser) ==
  IF variant = "DECL"
    THEN [parser EXCEPT !.optionals = @ \cup {FlagAction},
                        !.positionals = Append(@, TargetAction)]
    ELSE parser

(***************************************************************************)
(* Namespaces: a function from attribute names to values.                  *)
(***************************************************************************)
EmptyNamespace == [a \in {} |-> None]

hasattr(ns, a) == a \in DOMAIN ns

setattr(ns, a, v) == [x \in (DOMAIN ns) \cup {a} |-> IF x = a THEN v ELSE ns[x]]

delattr(ns, a) == [x \in (DOMAIN ns) \ {a} |-> ns[x]]

(***************************************************************************)
(* argparse as base_parser.parse_args() runs it.  A parser is              *)
(*   [prog, optionals, positionals, defaults]                              *)
(* and the subparsers of the base parser are the registry, a sequence of   *)
(* [name, help, parser] in registration order.                             *)
(***************************************************************************)
Exit(code, kind, prog) ==
  [status |-> "exit", code |-> code, kind |-> kind, prog |-> prog]

OptionStrings(parser) == UNION {a.strings : a \in parser.optionals}

ActionOf(parser, s) == CHOOSE a \in parser.optionals : s \in a.strings

\* _parse_optional: "A" for a positional, else the option tuple's action.
parse_optional(parser, tok) ==
  LET abbrev == {s \in OptionStrings(parser) : StartsWith(s, tok)}
      actions == {ActionOf(parser, s) : s \in abbrev}
  IN  IF tok = <<>> \/ tok[1] # "-" THEN [cls |-> "A"]
      ELSE IF tok \in OptionStrings(parser)
        THEN [cls |-> "O", action |-> ActionOf(parser, tok)]
      ELSE IF Len(tok) = 1 THEN [cls |-> "A"]
      ELSE IF Cardinality(abbrev) > 1 THEN [cls |-> "ambiguous"]
      ELSE IF Cardinality(abbrev) = 1
        THEN [cls |-> "O", action |-> CHOOSE a \in actions : TRUE]
      ELSE [cls |-> "O", action |-> [kind |-> "none"]]

\* arg_strings_pattern
Pattern(parser, arg_strings) ==
  [i \in 1..Len(arg_strings) |-> parse_optional(parser, arg_strings[i]).cls]

\* _match_arguments_partial: how many strings each leading positional takes.
RECURSIVE match_partial(_, _)
match_partial(positionals, pattern) ==
  IF positionals = <<>> \/ pattern = <<>> \/ pattern[1] # "A" THEN <<>>
  ELSE IF positionals[1].nargs = "A..." THEN <<Len(pattern)>>
  ELSE <<1>> \o match_partial(Tail(positionals), Tail(pattern))

\* Variant: a subparser is found for any token its name starts with.
Matches_prefix(registry, tok) ==
  {i \in 1..Len(registry) : StartsWith(registry[i].name, tok)}

\* The subparser a first token selects: _name_parser_map[parser_name].
\* The map keeps the last parser stored under a name.
Matches(registry, tok) == {i \in 1..Len(registry) : registry[i].name = tok}

Lookup(registry, tok) ==
  LET m == Matches(registry, tok)
  IN  registry[CHOOSE i \in m : \A j \in m : j <= i]

RECURSIVE parse_known_args(_, _, _, _)
RECURSIVE parse_loop(_, _, _, _, _, _, _, _)
RECURSIVE consume_positionals(_, _, _, _, _, _, _)

\* The end of _SubParsersAction.__call__: the subparser's namespace is copied
\* over, what it left unparsed is kept on the namespace.
subparsers_merge(ns, sub) ==
  IF sub.status = "exit" THEN sub
  ELSE [status |-> "ok",
        ns |-> [x \in (DOMAIN ns) \cup (DOMAIN sub.ns)
                      \cup (IF sub.extras = <<>> THEN {} ELSE {"_unrecognized_args"}) |->
                  IF x = "_unrecognized_args" THEN sub.extras
                  ELSE IF x \in DOMAIN sub.ns THEN sub.ns[x] ELSE ns[x]]]

\* Variant: a first word that names no subparser is passed over in silence.
subparsers_call_unchecked(registry, prog, values, ns) ==
  [status |-> "ok", ns |-> ns]

\* _SubParsersAction.__call__
subparsers_call(registry, prog, values, ns) ==
  IF Matches(registry, values[1]) = {} THEN Exit(2, "invalid choice", prog)
  ELSE subparsers_merge(ns, parse_known_args(Lookup(registry, values[1]).parser, <<>>,
                                             Tail(values), EmptyNamespace))

\* take_action for a positional: [status |-> "ok", ns] or an exit.
take_positional(registry, prog, action, values, ns) ==
  IF action.nargs = "A..." THEN subparsers_call(registry, prog, values, ns)
  ELSE [status |-> "ok", ns |-> setattr(ns, action.dest, Some(values[1]))]

\* consume_positionals, after the first matched positional took its strings.
positionals_continue(parser, registry, arg_strings, pat, stop, positionals, taken) ==
  IF taken.status = "exit" THEN taken
  ELSE consume_positionals(parser, registry, arg_strings, pat, stop, positionals, taken.ns)

\* consume_positionals(start_index): [status, stop, positionals, ns] or an exit.
consume_positionals(parser, registry, arg_strings, pat, i, positionals, ns) ==
  LET counts == match_partial(positionals, SubSeq(pat, i, Len(pat)))
  IN  IF counts = <<>>
        THEN [status |-> "ok", stop |-> i, positionals |-> positionals, ns |-> ns]
      ELSE positionals_continue(
             parser, registry, arg_strings, pat, i + counts[1], Tail(positionals),
             take_positional(registry, parser.prog, positionals[1],
                             SubSeq(arg_strings, i, i + counts[1] - 1), ns))

\* The end of _parse_known_args, r being the last consume_positionals.
parse_finish(parser, arg_strings, extras, r) ==
  IF r.status = "exit" THEN r
  ELSE IF \E k \in 1..Len(r.positionals) : r.positionals[k].required
    THEN Exit(2, "required", parser.prog)
  ELSE IF hasattr(r.ns, "_unrecognized_args")
    THEN [status |-> "ok", ns |-> delattr(r.ns, "_unrecognized_args"),
          extras |-> extras \o SubSeq(arg_strings, r.stop, Len(arg_strings))
                       \o r.ns["_unrecognized_args"]]
  ELSE [status |-> "ok", ns |-> r.ns,
        extras |-> extras \o SubSeq(arg_strings, r.stop, Len(arg_strings))]

\* consume_optional(start_index): [status |-> "run", i, ns, extras] or an exit.
consume_optional(prog, arg_strings, pat, i, ns, extras, action) ==
  IF action.kind = "none"
    THEN [status |-> "run", i |-> i + 1, ns |-> ns, extras |-> Append(extras, arg_strings[i])]
  ELSE IF action.kind = "help" THEN Exit(0, "help", prog)
  ELSE IF i + 1 <= Len(arg_strings) /\ pat[i + 1] = "A"
    THEN [status |-> "run", i |-> i + 2,
          ns |-> setattr(ns, action.dest, Some(arg_strings[i + 1])), extras |-> extras]
  ELSE Exit(2, "expected one argument", prog)

\* The loop goes on after consume_optional returned o.
after_optional(parser, registry, arg_strings, pat, positionals, o) ==
  IF o.status = "exit" THEN o
  ELSE parse_loop(parser, registry, arg_strings, pat, o.i, positionals, o.ns, o.extras)

\* The loop goes on after consume_positionals(i) returned r, next being the
\* index of the next option string.
after_positionals(parser, registry, arg_strings, pat, i, next, positionals, ns, extras, r) ==
  IF r.status = "exit" THEN r
  ELSE IF r.stop > i
    THEN parse_loop(parser, registry, arg_strings, pat, r.stop, r.positionals, r.ns, extras)
  ELSE after_optional(
         parser, registry, arg_strings, pat, positionals,
         consume_optional(parser.prog, arg_strings, pat, next, ns,
                          extras \o SubSeq(arg_strings, i, next - 1),
                          parse_optional(parser, arg_strings[next]).action))

\* The index of the first option string at or after i, or 0.
next_option(pat, i) ==
  IF \E j \in i..Len(pat) : pat[j] = "O"
    THEN CHOOSE j \in i..Len(pat) : pat[j] = "O" /\ \A k \in i..(j - 1) : pat[k] # "O"
    ELSE 0

\* The while loop of _parse_known_args from start_index i (1-based).
parse_loop(parser, registry, arg_strings, pat, i, positionals, ns, extras) ==
  IF next_option(pat, i) = 0
    THEN parse_finish(parser, arg_strings, extras,
                      consume_positionals(parser, registry, arg_strings, pat, i, positionals, ns))
  ELSE IF next_option(pat, i) = i
    THEN after_optional(
           parser, registry, arg_strings, pat, positionals,
           consume_optional(parser.prog, arg_strings, pat, i, ns, extras,
                            parse_optional(parser, arg_strings[i]).action))
  ELSE after_positionals(
         parser, registry, arg_strings, pat, i, next_option(pat, i), positionals, ns, extras,
         consume_positionals(parser, registry, arg_strings, pat, i, positionals, ns))

\* The namespace before the scan: action defaults, then parser defaults.
InitialNamespace(parser, ns) ==
  LET dests == {a.dest : a \in {o \in parser.optionals : o.kind = "store"}}
                 \cup {parser.positionals[k].dest :
                         k \in {n \in 1..Len(parser.positionals) :
                                  parser.positionals[n].nargs = "one"}}
      new == (dests \cup DOMAIN parser.defaults) \ DOMAIN ns
  IN  [x \in (DOMAIN ns) \cup new |->
         IF x \in DOMAIN ns THEN ns[x]
         ELSE IF x \in dests THEN None ELSE parser.defaults[x]]

\* parse_known_args: [status |-> "ok", ns, extras] or an exit.
parse_known_args(parser, registry, arg_strings, namespace) ==
  IF \E i \in 1..Len(arg_strings) : parse_optional(parser, arg_strings[i]).cls = "ambiguous"
    THEN Exit(2, "ambiguous option", parser.prog)
  ELSE parse_loop(parser, registry, arg_strings, Pattern(parser, arg_strings), 1,
                  parser.positionals, InitialNamespace(parser, namespace), <<>>)

\* Variant: left-over strings are dropped (parse_known_args in place of
\* parse_args).
parse_args_lenient(parser, registry, arg_strings) ==
  LET r == parse_known_args(parser, registry, arg_strings, EmptyNamespace)
  IN  IF r.status = "exit" THEN r ELSE [status |-> "ok", ns |-> r.ns]

\* parse_args: parse_known_args, and an error when strings are left over.
parse_args(parser, registry, arg_strings) ==
  LET r == parse_known_args(parser, registry, arg_strings, EmptyNamespace)
  IN  IF r.status = "exit" THEN r
      ELSE IF r.extras # <<>> THEN Exit(2, "unrecognized arguments", parser.prog)
      ELSE [status |-> "ok", ns |-> r.ns]

(***************************************************************************)
(* The script.                                                             *)
(***************************************************************************)
VARIABLES
  pc,           \* the line of __main__ about to run, or "exit"
  modules,      \* what each imported handler module exposes (a Variant)
  registry,     \* the subparsers of base_parser, in registration order
  argv,         \* sys.argv[1:] as parse_args read it
  args,         \* the namespace parse_args returned
  calls,        \* the handler entry points called so far, with their argument
  output,       \* what argparse reported: None or Some([kind, prog])
  exit_status   \* None while the process runs, Some(code) once it has ended

vars == <<pc, modules, registry, argv, args, calls, output, exit_status>>

\* Variant: line 42 registers its handler under the name of line 41.
Cmds_duplicate ==
  [L38 |-> [name |-> T_size, handler |-> "make_size_report", descr |-> "Generate size report.", next |-> "L39"],
   L39 |-> [name |-> T_gen, handler |-> "replace_all", descr |-> "Regenerate readable examples.", next |-> "L40"],
   L40 |-> [name |-> T_diff, handler |-> "diff", descr |-> "Compare output.", next |-> "L41"],
   L41 |-> [name |-> T_test, handler |-> "test_integration", descr |-> "Run an integration test.", next |-> "L42"],
   L42 |-> [name |-> T_test, handler |-> "test_all", descr |-> "Run all tests.", next |-> "L49"]]

\* Lines 38-42: the five _add_cmd calls.
Cmds ==
  [L38 |-> [name |-> T_size, handler |-> "make_size_report", descr |-> "Generate size report.", next |-> "L39"],
   L39 |-> [name |-> T_gen, handler |-> "replace_all", descr |-> "Regenerate readable examples.", next |-> "L40"],
   L40 |-> [name |-> T_diff, handler |-> "diff", descr |-> "Compare output.", next |-> "L41"],
   L41 |-> [name |-> T_test, handler |-> "test_integration", descr |-> "Run an integration test.", next |-> "L42"],
   L42 |-> [name |-> T_testall, handler |-> "test_all", descr |-> "Run all tests.", next |-> "L49"]]

RegistrationLines == DOMAIN Cmds

\* Variant: a func default is also set on the base parser.
base_parser_with_func ==
  [prog |-> T_j2, optionals |-> {HelpAction}, positionals |-> <<SubParsersAction>>,
   defaults |-> [x \in {"func"} |-> "make_size_report"]]

\* Lines 35-36: argparse.ArgumentParser(...) and add_subparsers().
base_parser ==
  [prog |-> T_j2, optionals |-> {HelpAction}, positionals |-> <<SubParsersAction>>,
   defaults |-> EmptyNamespace]

\* subparsers.add_parser(name, help=descr, description=descr)
add_parser(name) ==
  [prog |-> name, optionals |-> {HelpAction}, positionals |-> <<>>,
   defaults |-> EmptyNamespace]

\* Variant: every subparser gets the main of the module registered last.
set_defaults_last(parser, handler) ==
  [parser EXCEPT !.defaults = setattr(@, "func", "test_all")]

\* Variant: no func default is set.
set_defaults_missing(parser, handler) == parser

\* parser.set_defaults(func=handler.main)
set_defaults(parser, handler) ==
  [parser EXCEPT !.defaults = setattr(@, "func", handler)]

\* Variant: the subparser is created only for a handler with add_arguments.
add_cmd_skips_plain(subparsers, name, handler, descr) ==
  IF has_add_arguments(modules[handler])
    THEN Append(subparsers,
                [name |-> name, help |-> descr,
                 parser |-> [prog |-> name, optionals |-> {HelpAction, FlagAction},
                             positionals |-> <<TargetAction>>,
                             defaults |-> [x \in {"func"} |-> handler]]])
    ELSE subparsers

\* _add_cmd(subparsers, name, handler, descr): the registry afterwards.
add_cmd(subparsers, name, handler, descr) ==
  LET parser == add_parser(name)
      declared == IF has_add_arguments(modules[handler])
                    THEN add_arguments(modules[handler], parser)
                    ELSE parser
  IN  Append(subparsers, [name |-> name, help |-> descr,
                          parser |-> set_defaults(declared, handler)])

Init ==
  /\ pc = "L38"
  /\ modules \in [Handlers -> Variants]
  /\ registry = <<>>
  /\ argv = <<>>
  /\ args = EmptyNamespace
  /\ calls = <<>>
  /\ output = None
  /\ exit_status = None

\* One of lines 38-42.
AddCmd ==
  /\ pc \in RegistrationLines
  /\ registry' = add_cmd(registry, Cmds[pc].name, Cmds[pc].handler, Cmds[pc].descr)
  /\ pc' = Cmds[pc].next
  /\ UNCHANGED <<modules, argv, args, calls, output, exit_status>>

\* Line 49: args = base_parser.parse_args(), which may end the process.
ParseArgs ==
  /\ pc = "L49"
  /\ \E a \in ArgLists :
       LET r == parse_args(base_parser, registry, a)
       IN  /\ argv' = a
           /\ IF r.status = "ok"
                THEN /\ args' = r.ns
                     /\ pc' = "L50"
                     /\ UNCHANGED <<output, exit_status>>
                ELSE /\ output' = Some([kind |-> r.kind, prog |-> r.prog])
                     /\ exit_status' = Some(r.code)
                     /\ pc' = "exit"
                     /\ UNCHANGED args
  /\ UNCHANGED <<modules, registry, calls>>

\* Line 50: if not hasattr(args, "func").
CheckFunc ==
  /\ pc = "L50"
  /\ pc' = IF ~hasattr(args, "func") THEN "L51" ELSE "L52"
  /\ UNCHANGED <<modules, registry, argv, args, calls, output, exit_status>>

\* Variant: line 51 prints the usage and lets the script end normally.
TooFewArguments_print_usage ==
  /\ pc = "L51"
  /\ output' = Some([kind |-> "usage", prog |-> T_j2])
  /\ exit_status' = Some(0)
  /\ pc' = "exit"
  /\ UNCHANGED <<modules, registry, argv, args, calls>>

\* Line 51: base_parser.error("too few arguments") prints and exits with 2.
TooFewArguments ==
  /\ pc = "L51"
  /\ output' = Some([kind |-> "too few arguments", prog |-> base_parser.prog])
  /\ exit_status' = Some(2)
  /\ pc' = "exit"
  /\ UNCHANGED <<modules, registry, argv, args, calls>>

\* What a handler's main may leave as the process's exit status.
HandlerStatuses == {0, 1}

\* Variant: the entry point is called twice.
CallFunc_twice ==
  /\ pc = "L52"
  /\ calls' = calls \o <<[main |-> args["func"], args |-> args], [main |-> args["func"], args |-> args]>>
  /\ \E code \in {0, 1} : exit_status' = Some(code)
  /\ pc' = "exit"
  /\ UNCHANGED <<modules, registry, argv, args, output>>

\* Line 52: args.func(args); the script ends when the handler returns.
CallFunc ==
  /\ pc = "L52"
  /\ calls' = Append(calls, [main |-> args["func"], args |-> args])
  /\ \E code \in HandlerStatuses : exit_status' = Some(code)
  /\ pc' = "exit"
  /\ UNCHANGED <<modules, registry, argv, args, output>>

Next ==
  \/ AddCmd
  \/ ParseArgs
  \/ CheckFunc
  \/ TooFewArguments
  \/ CallFunc

Spec == Init /\ [][Next]_vars

(***************************************************************************)
(* Vocabulary of the properties.                                           *)
(***************************************************************************)
\* The names the dispatcher documents, and the module each stands for.
HandlerOfName ==
  [n \in {T_size, T_gen, T_diff, T_test, T_testall} |->
     CASE n = T_size -> "make_size_report"
       [] n = T_gen -> "replace_all"
       [] n = T_diff -> "diff"
       [] n = T_test -> "test_integration"
       [] n = T_testall -> "test_all"]

RegisteredNames == DOMAIN HandlerOfName

Exited == pc = "exit"

NoHandlerRan == calls = <<>>

\* The run ended in a usage error: a message of that kind, exit status 2.
UsageErrorKinds ==
  {"too few arguments", "invalid choice", "unrecognized arguments",
   "expected one argument", "required", "ambiguous option"}

UsageError ==
  /\ Exited
  /\ output # None
  /\ output[1].kind \in UsageErrorKinds
  /\ exit_status = Some(2)

UsageErrorOf(kind, prog) == UsageError /\ output[1] = [kind |-> kind, prog |-> prog]

\* The run ended by printing a help text, with exit status 0.
HelpShown ==
  /\ Exited
  /\ output # None
  /\ output[1].kind = "help"
  /\ exit_status = Some(0)

\* Exactly the handler h ran, once, on the namespace parse_args returned.
Dispatched(h) == Exited /\ output = None /\ calls = <<[main |-> h, args |-> args]>>

IsWord(tok) == tok # <<>> /\ tok[1] # "-"

Range(seq) == {seq[i] : i \in 1..Len(seq)}

\* The tokens left when every "--flag WORD" pair is taken out.
RECURSIVE WithoutFlagPairs(_)
WithoutFlagPairs(rest) ==
  IF rest = <<>> THEN <<>>
  ELSE IF rest[1] = T_flag /\ Len(rest) >= 2 /\ IsWord(rest[2])
    THEN WithoutFlagPairs(SubSeq(rest, 3, Len(rest)))
  ELSE <<rest[1]>> \o WithoutFlagPairs(Tail(rest))

\* The value of the last "--flag WORD" pair, or None.
RECURSIVE FlagValue(_)
FlagValue(rest) ==
  IF rest = <<>> THEN None
  ELSE IF rest[1] = T_flag /\ Len(rest) >= 2 /\ IsWord(rest[2])
    THEN LET later == FlagValue(SubSeq(rest, 3, Len(rest)))
         IN  IF later = None THEN Some(rest[2]) ELSE later
  ELSE FlagValue(Tail(rest))

\* The tokens after the subcommand name fit what the handler declared.
Accepts(variant, rest) ==
  IF variant = "NONE" THEN rest = <<>>
  ELSE LET words == WithoutFlagPairs(rest)
       IN  Len(words) = 1 /\ IsWord(words[1])

\* The options structure such tokens stand for.
OptionsOf(variant, h, rest) ==
  IF variant = "NONE" THEN [x \in {"func"} |-> h]
  ELSE [x \in {"func", "flag", "target"} |->
          CASE x = "func" -> h
            [] x = "flag" -> FlagValue(rest)
            [] x = "target" -> Some(WithoutFlagPairs(rest)[1])]

\* Malformed for the subcommand: not accepted, and no request for help.
Malformed(variant, rest) == T_h \notin Range(rest) /\ ~Accepts(variant, rest)

FirstIsRegistered == argv # <<>> /\ argv[1] \in RegisteredNames

(***************************************************************************)
(* C1: when the first token is one of the five names and the remaining     *)
(* tokens are accepted by that subcommand's declared options, the run      *)
(* calls main of the module registered under that name (size ->            *)
(* make_size_report, gen -> replace_all, diff -> diff, test ->             *)
(* test_integration, testall -> test_all), once, with the parsed options   *)
(* structure; with that first token no other module's main is ever called. *)
(***************************************************************************)
C1_DispatchesRegisteredHandler ==
  (Exited /\ FirstIsRegistered) =>
    LET h == HandlerOfName[argv[1]]
    IN  /\ \A i \in 1..Len(calls) : calls[i].main = h
        /\ Accepts(modules[h], Tail(argv)) =>
             /\ Dispatched(h)
             /\ args = OptionsOf(modules[h], h, Tail(argv))

C1_Witness ==
  /\ Exited
  /\ argv = <<T_diff, T_flag, T_bogus, T_size>>
  /\ modules["diff"] = "DECL"
  /\ Dispatched("diff")
  /\ args["flag"] = Some(T_bogus)
  /\ args["target"] = Some(T_size)

(***************************************************************************)
(* C2: a run on the empty argument list ends in the usage error "too few   *)
(* arguments" with exit status 2, and calls no handler.                    *)
(***************************************************************************)
C2_EmptyArgvIsUsageError ==
  (pc \in {"L50", "L51", "L52", "exit"} /\ argv = <<>>) =>
    /\ NoHandlerRan
    /\ pc # "L52"
    /\ Exited => UsageErrorOf("too few arguments", T_j2)

C2_Witness == Exited /\ argv = <<>> /\ UsageErrorOf("too few arguments", T_j2)

(***************************************************************************)
(* C3 as stated: a run whose first token is not a registered name ends in  *)
(* an invalid-choice usage error with non-zero exit and calls no handler.  *)
(***************************************************************************)
C3_Original ==
  (Exited /\ argv # <<>> /\ argv[1] \notin RegisteredNames) =>
    UsageErrorOf("invalid choice", T_j2) /\ NoHandlerRan

(***************************************************************************)
(* C3 amended: a run whose first token is not a registered name (and not   *)
(* the bare "--" separator) calls no handler.  When that token does not    *)
(* begin with '-', the run ends in an invalid-choice usage error with exit *)
(* status 2; when it is the help flag the run ends with the help text and  *)
(* exit status 0; another token that begins with '-' ends in a usage       *)
(* error, or in the help text when the help flag follows.                  *)
(***************************************************************************)
C3_UnregisteredFirstToken ==
  (Exited /\ argv # <<>> /\ argv[1] \notin RegisteredNames) =>
    /\ NoHandlerRan
    /\ IsWord(argv[1]) => UsageErrorOf("invalid choice", T_j2)
    /\ argv[1] = T_h => HelpShown
    /\ UsageError \/ (HelpShown /\ T_h \in Range(argv))

C3_Witness ==
  /\ Exited
  /\ argv = <<T_bogus, T_h>>
  /\ UsageErrorOf("invalid choice", T_j2)
  /\ NoHandlerRan

(***************************************************************************)
(* C4 as stated: every run ends either with exactly one handler called or  *)
(* in a usage error with non-zero exit before any handler ran, also when   *)
(* the argument list holds the help flag.                                  *)
(***************************************************************************)
C4_Original ==
  Exited => \/ (Len(calls) = 1 /\ output = None)
            \/ (NoHandlerRan /\ UsageError)

(***************************************************************************)
(* C4 amended: every run has exactly one of three outcomes: exactly one    *)
(* handler is called; or the run fails in a usage error with exit status 2 *)
(* before any handler ran; or, only when the argument list holds the help  *)
(* flag, the help text is printed and the run ends with exit status 0      *)
(* without calling a handler.                                              *)
(***************************************************************************)
C4_ThreeOutcomes ==
  Exited =>
    /\ \/ (Len(calls) = 1 /\ output = None)
       \/ (NoHandlerRan /\ UsageError)
       \/ (NoHandlerRan /\ HelpShown)
    /\ HelpShown => T_h \in Range(argv)

C4_Witness ==
  /\ Exited
  /\ argv = <<T_size, T_h>>
  /\ NoHandlerRan
  /\ HelpShown
  /\ output[1].prog = T_size

(***************************************************************************)
(* C5: on any run the dispatcher calls at most one handler entry point.    *)
(***************************************************************************)
C5_AtMostOneCall == Len(calls) <= 1

C5_Witness == Exited /\ Len(calls) = 1 /\ Len(argv) > 1

C7_BareNameReachesHandlerGrammar ==
  (Exited /\ FirstIsRegistered /\ Len(argv) = 1) =>
    LET h == HandlerOfName[argv[1]]
    IN  /\ ~UsageErrorOf("too few arguments", T_j2)
        /\ ~UsageErrorOf("invalid choice", T_j2)
        /\ IF modules[h] = "NONE" THEN Dispatched(h)
           ELSE UsageErrorOf("required", argv[1]) /\ NoHandlerRan

C7_Witness ==
  /\ Exited
  /\ argv = <<T_testall>>
  /\ modules["test_all"] = "DECL"
  /\ UsageErrorOf("required", T_testall)

\* All five descriptors are registered, each with what its handler declared.
RegistryComplete ==
  /\ Len(registry) = 5
  /\ {registry[i].name : i \in 1..Len(registry)} = RegisteredNames
  /\ \A i \in 1..Len(registry) :
       LET d == registry[i]
           h == HandlerOfName[d.name]
       IN  /\ d.parser.defaults = [x \in {"func"} |-> h]
           /\ IF modules[h] = "NONE"
                THEN d.parser.optionals = {HelpAction} /\ d.parser.positionals = <<>>
                ELSE /\ d.parser.optionals = {HelpAction, FlagAction}
                     /\ d.parser.positionals = <<TargetAction>>

(***************************************************************************)
(* C8: registration strictly precedes dispatch.  When the argument list is *)
(* parsed all five descriptors are registered, each with the options its   *)
(* handler's add_arguments declared, and a handler without add_arguments   *)
(* is registered with no options of its own; nothing is parsed or called   *)
(* while registration runs; and from the parse on the registry never       *)
(* changes.                                                                *)
(***************************************************************************)
C8_RegistrationPrecedesDispatch ==
  /\ [](pc \notin RegistrationLines => RegistryComplete)
  /\ [](pc \in RegistrationLines =>
          argv = <<>> /\ args = EmptyNamespace /\ calls = <<>> /\ output = None)
  /\ [][pc \notin RegistrationLines => registry' = registry]_vars

C8_Witness ==
  /\ Exited
  /\ RegistryComplete
  /\ modules["make_size_report"] = "NONE"
  /\ modules["diff"] = "DECL"
  /\ argv = <<T_size>>
  /\ Dispatched("make_size_report")

\* The run got as far as the subparser of name n: its handler ran, or its
\* parser reported, or the base parser rejected what that subparser left over.
Selected(n) ==
  \/ Dispatched(HandlerOfName[n])
  \/ (NoHandlerRan /\ output # None /\ output[1].prog = n)
  \/ (NoHandlerRan /\ UsageErrorOf("unrecognized arguments", T_j2))

(***************************************************************************)
(* C9: resolution is by exact name.  A first token that is a word selects  *)
(* a descriptor if and only if it equals the descriptor's name: "test"     *)
(* reaches the integration-test handler and never the run-all-tests        *)
(* handler, "testall" reaches the run-all-tests handler, and a strict      *)
(* prefix or extension of a name ("tes", "sizes") selects nothing and is   *)
(* an invalid-choice usage error.                                          *)
(***************************************************************************)
C9_ExactNameResolution ==
  (Exited /\ argv # <<>> /\ IsWord(argv[1])) =>
    /\ argv[1] \in RegisteredNames => Selected(argv[1])
    /\ argv[1] \notin RegisteredNames =>
         UsageErrorOf("invalid choice", T_j2) /\ NoHandlerRan
    /\ argv[1] = T_test => \A i \in 1..Len(calls) : calls[i].main = "test_integration"
    /\ argv[1] = T_testall => \A i \in 1..Len(calls) : calls[i].main = "test_all"
    /\ argv[1] \in {T_tes, T_sizes} => NoHandlerRan

C9_Witness ==
  /\ Exited
  /\ argv = <<T_test>>
  /\ modules["test_integration"] = "NONE"
  /\ modules["test_all"] = "NONE"
  /\ Dispatched("test_integration")

(***************************************************************************)
(* C10: in every state the names in the registry are pairwise distinct,    *)
(* so no token matches two descriptors.                                    *)
(***************************************************************************)
C10_NamesUnique ==
  /\ \A i, j \in 1..Len(registry) : registry[i].name = registry[j].name => i = j
  /\ \A tok \in Tokens \cup RestTokens : Cardinality(Matches(registry, tok)) <= 1

C10_Witness ==
  /\ Len(registry) = 5
  /\ argv = <<T_testall>>
  /\ Cardinality(Matches(registry, T_testall)) = 1
  /\ Cardinality(Matches(registry, T_test)) = 1

====
